---- MODULE Spec2Model ----
(***************************************************************************)
(* Bite Tracker: the Restaurant / Visit entities, the SQLite repositories  *)
(* and the two services, modelled as a state machine over the database     *)
(* file.  One action per service operation; every action is the whole      *)
(* service method, the repository calls and entity constructions it makes  *)
(* included.  A Python exception is the "exc" field of an operation's      *)
(* result ("None": the call returned).                                     *)
(*                                                                         *)
(* Interpreter: models/visit.py:86-88 is an f-string that spans lines,     *)
(* which only Python 3.12 and later accept, so the model is of the code    *)
(* as Python 3.12+ runs it.                                                *)
(***************************************************************************)
EXTENDS Integers, Sequences, FiniteSets, TLC

VARIABLES restaurants, visits, restaurant_seq, visit_seq, issued, last,
          running, data_modified, pc, inflight

vars == <<restaurants, visits, restaurant_seq, visit_seq, issued, last,
          running, data_modified, pc, inflight>>

(* ------------------------------ bounds -------------------------------- *)

\* Rows the restaurants table may ever receive (caps the AUTOINCREMENT counter).
MaxRestaurants == 2

\* Rows the visits table may ever receive (caps the AUTOINCREMENT counter).
MaxVisits == 2

(* --------------------------- Python values ---------------------------- *)

\* An Optional[...] value: <<>> is None, <<x>> is the value x.
None == <<>>

Some(x) == <<x>>

\* The id of an entity that has not been persisted (id: Optional[int] = None).
NoId == 0

\* A str is the sequence of its characters.
Space == " "

RECURSIVE lstrip(_)
lstrip(s) == IF s # <<>> /\ Head(s) = Space THEN lstrip(Tail(s)) ELSE s

RECURSIVE rstrip(_)
rstrip(s) ==
    IF s # <<>> /\ s[Len(s)] = Space THEN rstrip(SubSeq(s, 1, Len(s) - 1)) ELSE s

\* str.strip()
strip(s) == rstrip(lstrip(s))

\* str.lower(), on the characters the inputs use
lower_char(c) ==
    CASE c = "D" -> "d"
      [] c = "L" -> "l"
      [] c = "B" -> "b"
      [] c = "A" -> "a"
      [] OTHER -> c

lower(s) == [i \in 1..Len(s) |-> lower_char(s[i])]

\* Truth value of an Optional[str]: None and "" are false.
Truthy(o) == o # None /\ o[1] # <<>>

\* A datetime.date is <<year, month, day>>; a > b
DateGT(a, b) ==
    \/ a[1] > b[1]
    \/ a[1] = b[1] /\ a[2] > b[2]
    \/ a[1] = b[1] /\ a[2] = b[2] /\ a[3] > b[3]

\* date.today() during the run
Today == <<2024, 6, 15>>

\* The outcome of a construction or call: the exception raised ("None" when it
\* returned) and the value returned.
Raise(e) == [exc |-> e, value |-> None]

Return(v) == [exc |-> "None", value |-> v]

\* raise e(m): the exception together with the text it carries
RaiseMessage(e, m) == [exc |-> e, value |-> None, message |-> m]

(* ------------------------------ entities ------------------------------ *)

NameMax == 100

LocationMax == 150

CountryMax == 100

CuisineMax == 50

PhoneMax == 20

WebsiteMax == 200

SocialMediaMax == 200

PriceRanges == {1, 2, 3, 4}

\* A required str field that is missing: "not s or not s.strip()"
Blank(s) == s = <<>> \/ strip(s) = <<>>

\* An optional str field that is set and longer than max: "o and len(o) > max"
TooLong(o, max) == Truthy(o) /\ Len(o[1]) > max

\* "if o: o = o.strip()"
StripOpt(o) == IF Truthy(o) THEN Some(strip(o[1])) ELSE o

\* As Restaurant_validate, were the length checks of the optional fields left
\* out.
Restaurant_validate_required(r) ==
    IF Blank(r.name) \/ Len(r.name) > NameMax
       \/ Blank(r.location) \/ Len(r.location) > LocationMax
       \/ Blank(r.country) \/ Len(r.country) > CountryMax
       \/ r.price_range \notin PriceRanges
    THEN RaiseMessage("ValidationError", "A required field is not valid.")
    ELSE Return([r EXCEPT !.name = strip(r.name),
                          !.location = strip(r.location),
                          !.country = strip(r.country),
                          !.cuisine_type = StripOpt(r.cuisine_type),
                          !.phone = StripOpt(r.phone),
                          !.website = StripOpt(r.website),
                          !.social_media = StripOpt(r.social_media)])

\* Restaurant.__post_init__ / _validate: the construction Restaurant(**r).  The
\* first violated rule, in the order of the code, raises; otherwise the
\* instance with its string fields stripped.
Restaurant_validate(r) ==
    IF Blank(r.name)
    THEN RaiseMessage("ValidationError", "Restaurant name is required.")
    ELSE IF Len(r.name) > NameMax
    THEN RaiseMessage("ValidationError",
                      "Restaurant name must not exceed 100 chars.")
    ELSE IF Blank(r.location)
    THEN RaiseMessage("ValidationError", "Location is required.")
    ELSE IF Len(r.location) > LocationMax
    THEN RaiseMessage("ValidationError", "Location must not exceed 150 chars.")
    ELSE IF Blank(r.country)
    THEN RaiseMessage("ValidationError", "Country is required.")
    ELSE IF Len(r.country) > CountryMax
    THEN RaiseMessage("ValidationError", "Country must not exceed 100 chars.")
    ELSE IF r.price_range \notin Int
    THEN RaiseMessage("ValidationError", "Price range must be an integer.")
    ELSE IF r.price_range \notin PriceRanges
    THEN RaiseMessage("ValidationError", "Price range must be between 1 and 4.")
    ELSE IF TooLong(r.cuisine_type, CuisineMax)
    THEN RaiseMessage("ValidationError",
                      "Cuisine type must not exceed 50 chars.")
    ELSE IF TooLong(r.phone, PhoneMax)
    THEN RaiseMessage("ValidationError",
                      "Phone number must not exceed 20 chars.")
    ELSE IF TooLong(r.website, WebsiteMax)
    THEN RaiseMessage("ValidationError",
                      "Website URL must not exceed 200 chars.")
    ELSE IF TooLong(r.social_media, SocialMediaMax)
    THEN RaiseMessage("ValidationError",
                      "Social media URL must not exceed 50 chars.")
    ELSE Return([r EXCEPT !.name = strip(r.name),
                          !.location = strip(r.location),
                          !.country = strip(r.country),
                          !.cuisine_type = StripOpt(r.cuisine_type),
                          !.phone = StripOpt(r.phone),
                          !.website = StripOpt(r.website),
                          !.social_media = StripOpt(r.social_media)])

\* Restaurant(id=id, **fields)
Restaurant(id, f) ==
    Restaurant_validate([id |-> id, name |-> f.name, location |-> f.location,
                         country |-> f.country, price_range |-> f.price_range,
                         cuisine_type |-> f.cuisine_type, phone |-> f.phone,
                         website |-> f.website, social_media |-> f.social_media])

Ratings == {1, 2, 3, 4, 5}

TextMax == 500

NotesMax == 1000

s_breakfast == <<"b", "r", "e", "a", "k", "f", "a", "s", "t">>

s_lunch == <<"l", "u", "n", "c", "h">>

s_dinner == <<"d", "i", "n", "n", "e", "r">>

s_brunch == <<"b", "r", "u", "n", "c", "h">>

s_other == <<"o", "t", "h", "e", "r">>

valid_meal_types == {s_breakfast, s_lunch, s_dinner, s_brunch, s_other}

\* "if o: ... if len(o) > 500: raise"
TextTooLong(o) == Truthy(o) /\ Len(o[1]) > TextMax

\* Visit.__post_init__ / _validate: the construction Visit(**v).  The first
\* condition reads self.resaurant_id, an attribute no Visit has: whenever
\* restaurant_id is an int the left operand of "or" is false, the right one is
\* evaluated and raises AttributeError.
Visit_validate(v) ==
    IF v.restaurant_id \notin Int THEN Raise("ValidationError")
    ELSE IF "resaurant_id" \notin DOMAIN v THEN Raise("AttributeError")
    ELSE IF v.resaurant_id <= 0 THEN Raise("ValidationError")
    ELSE IF DateGT(v.visit_date, Today) THEN Raise("ValidationError")
    ELSE IF v.rating \notin Int THEN Raise("ValidationError")
    ELSE IF v.rating \notin Ratings THEN Raise("ValidationError")
    ELSE IF v.meal_type = <<>> THEN Raise("ValidationError")
    ELSE IF lower(v.meal_type) \notin valid_meal_types THEN Raise("ValidationError")
    ELSE IF v.service_rating # None /\ v.service_rating[1] \notin Ratings
         THEN Raise("ValidationError")
    ELSE IF TextTooLong(v.dishes_ordered) THEN Raise("ValidationError")
    ELSE IF TextTooLong(v.recommended_dishes) THEN Raise("ValidationError")
    ELSE IF TextTooLong(v.beverage_ordered) THEN Raise("ValidationError")
    ELSE IF v.total_cost # None /\ v.total_cost[1] < 0 THEN Raise("ValidationError")
    ELSE IF v.notes # None /\ Len(v.notes[1]) > NotesMax THEN Raise("ValidationError")
    ELSE Return([v EXCEPT !.dishes_ordered = StripOpt(v.dishes_ordered),
                          !.recommended_dishes = StripOpt(v.recommended_dishes),
                          !.beverage_ordered = StripOpt(v.beverage_ordered),
                          !.notes = IF v.notes # None THEN Some(strip(v.notes[1]))
                                    ELSE None,
                          !.meal_type = strip(lower(v.meal_type))])

\* Visit(id=id, restaurant_id=restaurant_id, **fields)
Visit(id, restaurant_id, f) ==
    Visit_validate([id |-> id, restaurant_id |-> restaurant_id,
                    visit_date |-> f.visit_date, rating |-> f.rating,
                    meal_type |-> f.meal_type, service_rating |-> f.service_rating,
                    dishes_ordered |-> f.dishes_ordered,
                    recommended_dishes |-> f.recommended_dishes,
                    beverage_ordered |-> f.beverage_ordered,
                    total_cost |-> f.total_cost, notes |-> f.notes,
                    would_return |-> f.would_return])

(* ----------------------------- validators ----------------------------- *)

DigitChars == <<"0", "1", "2", "3", "4", "5", "6", "7", "8", "9">>

IsDigit(c) == \E i \in 1..10 : DigitChars[i] = c

\* int() of one decimal digit
DigitValue(c) == (CHOOSE i \in 1..10 : DigitChars[i] = c) - 1

\* int() of a run of decimal digits
RECURSIVE ToInt(_)
ToInt(s) ==
    IF s = <<>> THEN 0
    ELSE 10 * ToInt(SubSeq(s, 1, Len(s) - 1)) + DigitValue(s[Len(s)])

AllDigits(s) == \A i \in 1..Len(s) : IsDigit(s[i])

\* _strptime's pattern of %Y: \d\d\d\d
MatchesYear(s) == Len(s) = 4 /\ AllDigits(s)

\* _strptime's pattern of %m: 1[0-2]|0[1-9]|[1-9]
MatchesMonth(s) ==
    /\ Len(s) \in {1, 2}
    /\ AllDigits(s)
    /\ ToInt(s) \in 1..12

\* _strptime's pattern of %d: 3[0-1]|[1-2]\d|0[1-9]|[1-9]| [1-9]
MatchesDay(s) ==
    \/ Len(s) \in {1, 2} /\ AllDigits(s) /\ ToInt(s) \in 1..31
    \/ Len(s) = 2 /\ s[1] = Space /\ IsDigit(s[2]) /\ s[2] # "0"

\* int() of what %d matched
DayValue(s) == IF s[1] = Space THEN ToInt(Tail(s)) ELSE ToInt(s)

IsLeap(y) == y % 4 = 0 /\ (y % 100 # 0 \/ y % 400 = 0)

\* calendar.monthrange
DaysInMonth(y, m) ==
    IF m = 2 THEN (IF IsLeap(y) THEN 29 ELSE 28)
    ELSE IF m \in {4, 6, 9, 11} THEN 30 ELSE 31

\* datetime.date(y, m, d) raises ValueError unless this holds
IsDate(y, m, d) == y >= 1 /\ m \in 1..12 /\ d \in 1..DaysInMonth(y, m)

\* The three formats of validate_date, in its order: the separator, and
\* whether the year comes first.
formats ==
    << [sep |-> "-", year_first |-> TRUE],
       [sep |-> "/", year_first |-> FALSE],
       [sep |-> "-", year_first |-> FALSE] >>

\* datetime.strptime(text, date_format).date(): None stands for ValueError
\* (the text does not match the pattern as a whole, or the numbers are no
\* calendar date).
strptime(text, date_format) ==
    LET cuts == { c \in (1..Len(text)) \X (1..Len(text)) :
                    /\ c[1] < c[2]
                    /\ text[c[1]] = date_format.sep
                    /\ text[c[2]] = date_format.sep
                    /\ LET a == SubSeq(text, 1, c[1] - 1)
                           b == SubSeq(text, c[1] + 1, c[2] - 1)
                           e == SubSeq(text, c[2] + 1, Len(text))
                       IN  /\ MatchesMonth(b)
                           /\ IF date_format.year_first
                              THEN MatchesYear(a) /\ MatchesDay(e)
                              ELSE MatchesDay(a) /\ MatchesYear(e) }
    IN  IF cuts = {} THEN None
        ELSE LET c == CHOOSE x \in cuts : TRUE
                 a == SubSeq(text, 1, c[1] - 1)
                 b == SubSeq(text, c[1] + 1, c[2] - 1)
                 e == SubSeq(text, c[2] + 1, Len(text))
                 y == IF date_format.year_first THEN ToInt(a) ELSE ToInt(e)
                 d == IF date_format.year_first THEN DayValue(e) ELSE DayValue(a)
             IN  IF IsDate(y, ToInt(b), d) THEN Some(<<y, ToInt(b), d>>) ELSE None

\* As validate_date, were the ValidationError of a date in the future caught
\* by "except ValueError": the loop goes on to the next format.
RECURSIVE validate_date_caught_from(_, _)
validate_date_caught_from(value, i) ==
    IF i > Len(formats)
    THEN RaiseMessage("ValidationError", "Invalid date format")
    ELSE LET parsed_date == strptime(strip(value), formats[i])
         IN  IF parsed_date = None \/ DateGT(parsed_date[1], Today)
             THEN validate_date_caught_from(value, i + 1)
             ELSE Return(parsed_date)

validate_date_caught(value) == validate_date_caught_from(value, 1)

\* The loop of validate_date from the i-th format on: the first format that
\* parses decides, by returning the date or by raising ValidationError, which
\* "except ValueError" does not catch; a format that does not parse is passed.
RECURSIVE validate_date_from(_, _)
validate_date_from(value, i) ==
    IF i > Len(formats)
    THEN RaiseMessage("ValidationError", "Invalid date format")
    ELSE LET parsed_date == strptime(strip(value), formats[i])
         IN  IF parsed_date = None THEN validate_date_from(value, i + 1)
             ELSE IF DateGT(parsed_date[1], Today)
             THEN RaiseMessage("ValidationError",
                               "Visit date cannot be in the future")
             ELSE Return(parsed_date)

\* InputValidator.validate_date
validate_date(value) == validate_date_from(value, 1)

(* ---------------------------- repositories ---------------------------- *)

\* The database file: the rows of the two tables, keyed by id, and the
\* AUTOINCREMENT counters (sqlite_sequence) of the two tables.
db == [restaurants |-> restaurants, visits |-> visits,
       restaurant_seq |-> restaurant_seq, visit_seq |-> visit_seq]

\* The outcome of a call that may write: exception, returned value, database.
Result(e, v, d) == [exc |-> e, value |-> v, db |-> d]

\* f without the key k
Without(f, k) == [x \in DOMAIN f \ {k} |-> f[x]]

\* f with the key k set to v
With(f, k, v) == [x \in DOMAIN f \cup {k} |-> IF x = k THEN v ELSE f[x]]

\* As SqliteRestaurantRepository_get_by_id, were _row_to_restaurant to pass the
\* required columns only.
SqliteRestaurantRepository_get_by_id_required(d, restaurant_id) ==
    IF restaurant_id \notin DOMAIN d.restaurants THEN Return(None)
    ELSE Return(Some([d.restaurants[restaurant_id] EXCEPT
                        !.cuisine_type = None, !.phone = None,
                        !.website = None, !.social_media = None]))

\* SqliteRestaurantRepository.get_by_id: None when no row has the id, else
\* _row_to_restaurant(row), which constructs (and so validates) a Restaurant.
SqliteRestaurantRepository_get_by_id(d, restaurant_id) ==
    IF restaurant_id \notin DOMAIN d.restaurants THEN Return(None)
    ELSE LET c == Restaurant(restaurant_id, d.restaurants[restaurant_id])
         IN  IF c.exc # "None" THEN c ELSE Return(Some(c.value))

\* The greatest key of the table f (0 when it is empty)
MaxRowId(f) ==
    IF DOMAIN f = {} THEN 0 ELSE CHOOSE i \in DOMAIN f : \A j \in DOMAIN f : j <= i

\* As SqliteRestaurantRepository_add, were id declared INTEGER PRIMARY KEY
\* without AUTOINCREMENT: the new rowid is one more than the greatest one in the
\* table.
SqliteRestaurantRepository_add_rowid(d, restaurant) ==
    LET restaurant_id == MaxRowId(d.restaurants) + 1
        row == [restaurant EXCEPT !.id = restaurant_id]
        d2 == [d EXCEPT !.restaurants = With(d.restaurants, restaurant_id, row),
                        !.restaurant_seq = d.restaurant_seq + 1]
    IN  Result("None", row, d2)

\* SqliteRestaurantRepository.add: INSERT, lastrowid from AUTOINCREMENT, commit,
\* then Restaurant(id=lastrowid, ...) is constructed and returned.
SqliteRestaurantRepository_add(d, restaurant) ==
    LET restaurant_id == d.restaurant_seq + 1
        row == [restaurant EXCEPT !.id = restaurant_id]
        d2 == [d EXCEPT !.restaurants = With(d.restaurants, restaurant_id, row),
                        !.restaurant_seq = restaurant_id]
        c == Restaurant(restaurant_id, restaurant)
    IN  Result(c.exc, c.value, d2)

\* As SqliteRestaurantRepository_update, were the statement INSERT OR REPLACE:
\* a row is written under the id whether or not one was there.
SqliteRestaurantRepository_update_or_insert(d, restaurant) ==
    Result("None", TRUE,
           [d EXCEPT !.restaurants = With(d.restaurants, restaurant.id, restaurant)])

\* As SqliteRestaurantRepository_update, were the UPDATE never committed: the
\* row count is reported and the row keeps its values.
SqliteRestaurantRepository_update_uncommitted(d, restaurant) ==
    Result("None", restaurant.id \in DOMAIN d.restaurants, d)

\* SqliteRestaurantRepository.update: UPDATE ... WHERE id = ?; rowcount > 0
SqliteRestaurantRepository_update(d, restaurant) ==
    IF restaurant.id \in DOMAIN d.restaurants
    THEN Result("None", TRUE,
                [d EXCEPT !.restaurants = With(d.restaurants, restaurant.id, restaurant)])
    ELSE Result("None", FALSE, d)

\* SqliteRestaurantRepository.delete: DELETE FROM restaurants WHERE id = ?.  This
\* connection never issues PRAGMA foreign_keys = ON, and SQLite enforces foreign
\* keys (ON DELETE CASCADE included) only on connections that did: the visits
\* table is left as it is.
SqliteRestaurantRepository_delete(d, restaurant_id) ==
    IF restaurant_id \in DOMAIN d.restaurants
    THEN Result("None", TRUE,
                [d EXCEPT !.restaurants = Without(d.restaurants, restaurant_id)])
    ELSE Result("None", FALSE, d)

\* SqliteVisitRepository._row_to_visit: Visit(id=row['id'], ...)
SqliteVisitRepository_row_to_visit(row) == Visit(row.id, row.restaurant_id, row)

\* SqliteVisitRepository.add: PRAGMA foreign_keys = ON, INSERT (IntegrityError,
\* reported as RepositoryError, when restaurant_id is no restaurants row),
\* lastrowid, commit, then Visit(id=lastrowid, ...) is constructed and returned.
SqliteVisitRepository_add(d, visit) ==
    IF visit.restaurant_id \notin DOMAIN d.restaurants
    THEN Result("RepositoryError", None, d)
    ELSE LET visit_id == d.visit_seq + 1
             row == [visit EXCEPT !.id = visit_id]
             d2 == [d EXCEPT !.visits = With(d.visits, visit_id, row),
                             !.visit_seq = visit_id]
             c == Visit(visit_id, visit.restaurant_id, visit)
         IN  Result(c.exc, c.value, d2)

\* SqliteVisitRepository.get_by_id: None when no row has the id, else
\* _row_to_visit(row).
SqliteVisitRepository_get_by_id(d, visit_id) ==
    IF visit_id \notin DOMAIN d.visits THEN Return(None)
    ELSE LET c == SqliteVisitRepository_row_to_visit(d.visits[visit_id])
         IN  IF c.exc # "None" THEN c ELSE Return(Some(c.value))

\* The attributes a sqlite3.Connection lets the caller assign: the type has no
\* instance dictionary.
ConnectionAttributes == {"row_factory", "text_factory", "isolation_level"}

\* The row of the visits table with the least rowid among those of the
\* restaurant ("SELECT * FROM visits WHERE restaurant_id = ?", fetchone()).
VisitRowOf(d, restaurant_id) ==
    LET ids == {i \in DOMAIN d.visits : d.visits[i].restaurant_id = restaurant_id}
    IN  IF ids = {} THEN None
        ELSE Some(d.visits[CHOOSE i \in ids : \A j \in ids : i <= j])

\* As SqliteVisitRepository_get_by_restaurant_id, were its query to match no row
\* whatever the table holds.
SqliteVisitRepository_get_by_restaurant_id_no_row(d, restaurant_id) == Return(None)

\* SqliteVisitRepository.get_by_restaurant_id: the method first assigns
\* conn.rowfactory, which is no attribute of a connection: AttributeError, which
\* "except sqlite3.Error" does not catch, before any query is made.
SqliteVisitRepository_get_by_restaurant_id(d, restaurant_id) ==
    IF "rowfactory" \notin ConnectionAttributes THEN Raise("AttributeError")
    ELSE LET row == VisitRowOf(d, restaurant_id)
         IN  IF row = None THEN Return(None)
             ELSE LET c == SqliteVisitRepository_row_to_visit(row[1])
                  IN  IF c.exc # "None" THEN c ELSE Return(Some(c.value))

\* VisitRepository.update (no implementation in the SQLite repository): replaces
\* the row with the visit's id; whether a row matched.
VisitRepository_update(d, visit) ==
    IF visit.id \in DOMAIN d.visits
    THEN Result("None", TRUE, [d EXCEPT !.visits = With(d.visits, visit.id, visit)])
    ELSE Result("None", FALSE, d)

\* VisitRepository.delete (no implementation in the SQLite repository): removes
\* the row with the id; whether a row matched.
VisitRepository_delete(d, visit_id) ==
    IF visit_id \in DOMAIN d.visits
    THEN Result("None", TRUE, [d EXCEPT !.visits = Without(d.visits, visit_id)])
    ELSE Result("None", FALSE, d)

\* VisitRepository.delete_by_restaurant_id (no implementation in the SQLite
\* repository): removes the rows of the restaurant; whether a row matched.
VisitRepository_delete_by_restaurant_id(d, restaurant_id) ==
    LET ids == {i \in DOMAIN d.visits : d.visits[i].restaurant_id = restaurant_id}
    IN  Result("None", ids # {},
               [d EXCEPT !.visits = [i \in DOMAIN d.visits \ ids |-> d.visits[i]]])

\* SqliteRestaurantRepository.get_all: every row constructed as a Restaurant;
\* the list is rendered as the set of the ids of its restaurants.
SqliteRestaurantRepository_get_all(d) ==
    LET bad == {i \in DOMAIN d.restaurants :
                  Restaurant(i, d.restaurants[i]).exc # "None"}
    IN  IF bad # {} THEN Raise("ValidationError")
        ELSE Return(Some(DOMAIN d.restaurants))

\* SqliteVisitRepository.get_all: every row constructed as a Visit by
\* _row_to_visit; the list is rendered as the set of the ids of its visits.
SqliteVisitRepository_get_all(d) ==
    LET bad == {i \in DOMAIN d.visits :
                  SqliteVisitRepository_row_to_visit(d.visits[i]).exc # "None"}
    IN  IF bad # {}
        THEN Raise(SqliteVisitRepository_row_to_visit(
                       d.visits[CHOOSE i \in bad : TRUE]).exc)
        ELSE Return(Some(DOMAIN d.visits))

\* RestaurantRepository.filter_by_country (no implementation in the SQLite
\* repository): the restaurants of the country, each row constructed as a
\* Restaurant as get_all does.
RestaurantRepository_filter_by_country(d, country) ==
    Return(Some({i \in DOMAIN d.restaurants : d.restaurants[i].country = country}))

\* t occurs in s as a run of consecutive characters
Contains(s, t) ==
    \E i \in 0..(Len(s) - Len(t)) : SubSeq(s, i + 1, i + Len(t)) = t

\* RestaurantRepository.search_by_name (no implementation in the SQLite
\* repository): the restaurants whose name contains the term, letter case
\* ignored, each row constructed as a Restaurant as get_all does.
RestaurantRepository_search_by_name(d, name) ==
    LET ids == {i \in DOMAIN d.restaurants :
                  Contains(lower(d.restaurants[i].name), lower(name))}
    IN  IF \E i \in ids : Restaurant(i, d.restaurants[i]).exc # "None"
        THEN Raise("ValidationError")
        ELSE Return(Some(ids))

\* VisitRepository.filter_by_rating (no implementation in the SQLite
\* repository): the visits with rating >= min_rating, each row constructed as a
\* Visit by _row_to_visit as get_all does.
VisitRepository_filter_by_rating(d, min_rating) ==
    LET ids == {i \in DOMAIN d.visits : d.visits[i].rating >= min_rating}
    IN  IF ids = {} THEN Return(Some({}))
        ELSE LET c == SqliteVisitRepository_row_to_visit(
                          d.visits[CHOOSE i \in ids : \A j \in ids : i <= j])
             IN  IF c.exc # "None" THEN Raise(c.exc) ELSE Return(Some(ids))

(* ------------------------------ services ------------------------------ *)

\* RestaurantService.create_restaurant
create_restaurant(d, fields) ==
    LET restaurant == Restaurant(NoId, fields)
    IN  IF restaurant.exc # "None" THEN Result(restaurant.exc, None, d)
        ELSE LET a == SqliteRestaurantRepository_add(d, restaurant.value)
             IN  IF a.exc # "None" THEN Result(a.exc, None, a.db)
                 ELSE Result("None", Some(a.value), a.db)

\* RestaurantService.update_restaurant
update_restaurant(d, restaurant_id, fields) ==
    LET existing == SqliteRestaurantRepository_get_by_id(d, restaurant_id)
    IN  IF existing.exc # "None" THEN Result(existing.exc, None, d)
        ELSE IF existing.value = None THEN Result("NotFoundError", None, d)
        ELSE LET updated_restaurant == Restaurant(restaurant_id, fields)
             IN  IF updated_restaurant.exc # "None"
                 THEN Result(updated_restaurant.exc, None, d)
                 ELSE LET u == SqliteRestaurantRepository_update(
                                   d, updated_restaurant.value)
                      IN  IF ~u.value THEN Result("NotFoundError", None, u.db)
                          ELSE Result("None", Some(updated_restaurant.value), u.db)

\* RestaurantService.delete_restaurant
delete_restaurant(d, restaurant_id) ==
    LET restaurant == SqliteRestaurantRepository_get_by_id(d, restaurant_id)
    IN  IF restaurant.exc # "None" THEN Result(restaurant.exc, None, d)
        ELSE IF restaurant.value = None THEN Result("NotFoundError", None, d)
        ELSE LET visit == SqliteVisitRepository_get_by_restaurant_id(d, restaurant_id)
             IN  IF visit.exc # "None" THEN Result(visit.exc, None, d)
                 ELSE IF visit.value # None
                 THEN Result("BusinessRuleViolationError", None, d)
                 ELSE LET x == SqliteRestaurantRepository_delete(d, restaurant_id)
                      IN  IF ~x.value THEN Result("NotFoundError", None, x.db)
                          ELSE Result("None", None, x.db)

\* As create_visit, were it to insert the row without its two rule checks and
\* without constructing the Visit.
create_visit_unchecked(d, restaurant_id, fields) ==
    LET a == SqliteVisitRepository_add(
                 d, [fields EXCEPT !.meal_type = lower(fields.meal_type)]
                    @@ [id |-> NoId, restaurant_id |-> restaurant_id])
    IN  Result(a.exc, None, a.db)

\* As create_visit, were it to construct the Visit before its two rule checks.
create_visit_validate_first(d, restaurant_id, fields) ==
    LET visit == Visit(NoId, restaurant_id, fields)
        restaurant == SqliteRestaurantRepository_get_by_id(d, restaurant_id)
    IN  IF visit.exc # "None" THEN Result(visit.exc, None, d)
        ELSE IF restaurant.exc # "None" THEN Result(restaurant.exc, None, d)
        ELSE IF restaurant.value = None THEN Result("NotFoundError", None, d)
        ELSE Result("None", None, d)

\* VisitService.create_visit
create_visit(d, restaurant_id, fields) ==
    LET restaurant == SqliteRestaurantRepository_get_by_id(d, restaurant_id)
    IN  IF restaurant.exc # "None" THEN Result(restaurant.exc, None, d)
        ELSE IF restaurant.value = None THEN Result("NotFoundError", None, d)
        ELSE LET existing_visit ==
                     SqliteVisitRepository_get_by_restaurant_id(d, restaurant_id)
             IN  IF existing_visit.exc # "None" THEN Result(existing_visit.exc, None, d)
                 ELSE IF existing_visit.value # None
                 THEN Result("BusinessRuleViolationError", None, d)
                 ELSE LET visit == Visit(NoId, restaurant_id, fields)
                      IN  IF visit.exc # "None" THEN Result(visit.exc, None, d)
                          ELSE LET a == SqliteVisitRepository_add(d, visit.value)
                               IN  IF a.exc # "None" THEN Result(a.exc, None, a.db)
                                   ELSE Result("None", Some(a.value), a.db)

\* VisitService.update_visit
update_visit(d, visit_id, restaurant_id, fields) ==
    LET existing_visit == SqliteVisitRepository_get_by_id(d, visit_id)
    IN  IF existing_visit.exc # "None" THEN Result(existing_visit.exc, None, d)
        ELSE IF existing_visit.value = None THEN Result("NotFoundError", None, d)
        ELSE LET restaurant == SqliteRestaurantRepository_get_by_id(d, restaurant_id)
                 other_visit ==
                     IF restaurant_id # existing_visit.value[1].restaurant_id
                     THEN SqliteVisitRepository_get_by_restaurant_id(d, restaurant_id)
                     ELSE Return(None)
                 updated_visit == Visit(visit_id, restaurant_id, fields)
             IN  IF restaurant.exc # "None" THEN Result(restaurant.exc, None, d)
                 ELSE IF restaurant.value = None THEN Result("NotFoundError", None, d)
                 ELSE IF other_visit.exc # "None" THEN Result(other_visit.exc, None, d)
                 ELSE IF other_visit.value # None
                 THEN Result("BusinessRuleViolationError", None, d)
                 ELSE IF updated_visit.exc # "None"
                 THEN Result(updated_visit.exc, None, d)
                 ELSE LET u == VisitRepository_update(d, updated_visit.value)
                      IN  IF ~u.value THEN Result("NotFoundError", None, u.db)
                          ELSE Result("None", Some(updated_visit.value), u.db)

\* VisitService.delete_visit
delete_visit(d, visit_id) ==
    LET visit == SqliteVisitRepository_get_by_id(d, visit_id)
    IN  IF visit.exc # "None" THEN Result(visit.exc, None, d)
        ELSE IF visit.value = None THEN Result("NotFoundError", None, d)
        ELSE LET x == VisitRepository_delete(d, visit_id)
             IN  IF ~x.value THEN Result("NotFoundError", None, x.db)
                 ELSE Result("None", None, x.db)

\* VisitService.delete_visit_for_restaurant
delete_visit_for_restaurant(d, restaurant_id) ==
    LET visit == SqliteVisitRepository_get_by_restaurant_id(d, restaurant_id)
    IN  IF visit.exc # "None" THEN Result(visit.exc, None, d)
        ELSE IF visit.value = None THEN Result("NotFoundError", None, d)
        ELSE LET x == VisitRepository_delete_by_restaurant_id(d, restaurant_id)
             IN  IF ~x.value THEN Result("NotFoundError", None, x.db)
                 ELSE Result("None", None, x.db)

\* As search_restaurants, were the term passed on as the caller gave it.
search_restaurants_untrimmed(d, name) ==
    IF name = <<>> \/ strip(name) = <<>> THEN Raise("ValidationError")
    ELSE RestaurantRepository_search_by_name(d, name)

\* RestaurantService.search_restaurants: the list is rendered as the set of
\* the ids of its restaurants.
search_restaurants(d, name) ==
    IF name = <<>> \/ strip(name) = <<>> THEN Raise("ValidationError")
    ELSE RestaurantRepository_search_by_name(d, strip(name))

\* RestaurantService.get_restaurant
get_restaurant(d, restaurant_id) ==
    LET restaurant == SqliteRestaurantRepository_get_by_id(d, restaurant_id)
    IN  IF restaurant.exc # "None" THEN restaurant
        ELSE IF restaurant.value = None THEN Raise("NotFoundError")
        ELSE restaurant

\* RestaurantService.get_all_restaurants
get_all_restaurants(d) == SqliteRestaurantRepository_get_all(d)

\* RestaurantService.get_restaurants_by_country
get_restaurants_by_country(d, country) ==
    IF country = <<>> \/ strip(country) = <<>> THEN Raise("ValidationError")
    ELSE RestaurantRepository_filter_by_country(d, strip(country))

\* VisitService.get_all_visits
get_all_visits(d) == SqliteVisitRepository_get_all(d)

\* VisitService.get_visit_for_restaurant
get_visit_for_restaurant(d, restaurant_id) ==
    SqliteVisitRepository_get_by_restaurant_id(d, restaurant_id)

\* VisitService.get_top_rated_visits: the list is rendered as the set of the
\* ids of its visits.
get_top_rated_visits(d, min_rating) ==
    IF min_rating \notin Int \/ min_rating \notin {1, 2, 3, 4, 5}
    THEN Raise("ValidationError")
    ELSE VisitRepository_filter_by_rating(d, min_rating)

\* VisitService.get_visit_by_meal_type: the "return
\* self._visit_repo.filter_by_meal_type(normalized)" is a statement of the
\* block of "if normalized not in valid_meal_types", after the block's raise,
\* so it never runs; for a recognized meal type the method ends without a
\* return statement and the call yields None.
get_visit_by_meal_type(d, meal_type) ==
    IF meal_type = <<>> \/ strip(meal_type) = <<>> THEN Raise("ValidationError")
    ELSE LET normalized == lower(strip(meal_type))
         IN  IF normalized \notin valid_meal_types
             THEN Raise("ValidationError")
             ELSE Return(None)

(* ------------------------------- inputs ------------------------------- *)

\* A string of n characters
Text(n) == [i \in 1..n |-> "n"]

s_a == <<"a">>

s_b_padded == <<" ", "b", " ">>

s_x == <<"x">>

s_y == <<"y">>

s_c_padded == <<"c", " ">>

\* Field values a caller passes to create_restaurant / update_restaurant: two
\* valid ones (the second with surrounding blanks to strip), a blank name, a
\* price range outside 1..4, and the over-long ones below.
r_a ==
    [name |-> s_a, location |-> s_x, country |-> s_y, price_range |-> 2,
     cuisine_type |-> None, phone |-> None, website |-> None,
     social_media |-> None]

\* Field values that break one length rule each, by one character.
OverLongRestaurantInputs ==
    { [r_a EXCEPT !.name = Text(NameMax + 1)],
      [r_a EXCEPT !.location = Text(LocationMax + 1)],
      [r_a EXCEPT !.country = Text(CountryMax + 1)],
      [r_a EXCEPT !.cuisine_type = Some(Text(CuisineMax + 1))],
      [r_a EXCEPT !.phone = Some(Text(PhoneMax + 1))],
      [r_a EXCEPT !.website = Some(Text(WebsiteMax + 1))],
      [r_a EXCEPT !.social_media = Some(Text(SocialMediaMax + 1))] }

RestaurantInputs ==
    { r_a,
      [name |-> s_b_padded, location |-> s_x, country |-> s_y, price_range |-> 4,
       cuisine_type |-> Some(s_c_padded), phone |-> None, website |-> None,
       social_media |-> None],
      [name |-> <<" ">>, location |-> s_x, country |-> s_y, price_range |-> 2,
       cuisine_type |-> None, phone |-> None, website |-> None,
       social_media |-> None],
      [name |-> s_a, location |-> s_x, country |-> s_y, price_range |-> 5,
       cuisine_type |-> None, phone |-> None, website |-> None,
       social_media |-> None] }
    \cup OverLongRestaurantInputs

\* Field values a caller passes to create_visit / update_visit: two that meet
\* every documented rule (date not after today, rating 1..5, a recognized meal
\* type) and one that meets none (a future date, rating 6, no meal type).
v_dinner ==
    [visit_date |-> <<2024, 1, 15>>, rating |-> 5, meal_type |-> s_dinner,
     service_rating |-> None, dishes_ordered |-> None,
     recommended_dishes |-> None, beverage_ordered |-> None,
     total_cost |-> None, notes |-> None, would_return |-> TRUE]

v_lunch ==
    [visit_date |-> <<2024, 2, 1>>, rating |-> 3, meal_type |-> s_lunch,
     service_rating |-> Some(4), dishes_ordered |-> None,
     recommended_dishes |-> None, beverage_ordered |-> None,
     total_cost |-> None, notes |-> None, would_return |-> FALSE]

ValidVisitInputs == {v_dinner, v_lunch}

InvalidVisitInputs ==
    { [visit_date |-> <<2024, 7, 1>>, rating |-> 6, meal_type |-> <<>>,
       service_rating |-> None, dishes_ordered |-> None,
       recommended_dishes |-> None, beverage_ordered |-> None,
       total_cost |-> None, notes |-> None, would_return |-> TRUE] }

VisitInputs == ValidVisitInputs \cup InvalidVisitInputs

\* Search terms a caller passes: none, blanks, a letter of a stored name in
\* either case and with blanks around it, and a letter of no stored name.
SearchTerms == {<<>>, <<" ">>, s_a, <<" ", "A", " ">>, <<"z">>}

\* Minimum ratings a caller passes: the range 1..5 and its two neighbours.
MinRatings == 0..6

\* Meal types a caller passes: none, blanks, two recognized ones as stored,
\* one capitalized with blanks around it, and one that is not recognized.
MealTypeInputs ==
    {<<>>, <<" ">>, s_dinner, s_lunch,
     <<" ", "D", "i", "n", "n", "e", "r", " ">>, s_x}

\* Identifiers a caller passes: every id the tables may hold and one beyond.
RestaurantIds == 1..(MaxRestaurants + 1)

VisitIds == 1..(MaxVisits + 1)

(* ---------------------------- initial state --------------------------- *)

\* A restaurants row as the service stores it.
RestaurantRow(id, f) == [Restaurant(NoId, f).value EXCEPT !.id = id]

\* A visits row as the schema and the documented rules admit it.
VisitRow(id, restaurant_id, f) ==
    [id |-> id, restaurant_id |-> restaurant_id, visit_date |-> f.visit_date,
     rating |-> f.rating, meal_type |-> f.meal_type,
     service_rating |-> f.service_rating, dishes_ordered |-> f.dishes_ordered,
     recommended_dishes |-> f.recommended_dishes,
     beverage_ordered |-> f.beverage_ordered, total_cost |-> f.total_cost,
     notes |-> f.notes, would_return |-> f.would_return]

Min(a, b) == IF a < b THEN a ELSE b

\* The record of a call: the operation, its arguments (those it does not take
\* are NoId / None), the exception it raised ("None": it returned), and what it
\* returned: value_id the id of a returned entity, value_ids the ids of the
\* entities of a returned list (None: no list was returned), entity a returned
\* instance in full.
NoCall == [op |-> "none", restaurant_id |-> NoId, visit_id |-> NoId,
           restaurant_fields |-> None, visit_fields |-> None,
           number |-> 0, text |-> <<>>, message |-> "",
           exc |-> "None", value_id |-> NoId, value_ids |-> None,
           entity |-> None]

\* The database file the repositories find when they are constructed (issued:
\* the ids its tables have given out so far), MainMenu.running and
\* MainMenu.data_modified as __init__ sets them, the program about to show the
\* main menu, and no call in flight.  Both
\* _ensure_database_exists run CREATE TABLE IF NOT EXISTS, which keeps the rows
\* of an existing file, so the run starts from a fresh (empty) file or from a
\* file an earlier run left: n restaurants and k visits, every visit of a
\* restaurant of the file (the foreign key) and no restaurant with two visits,
\* the rows holding the field values r_a and v_dinner.
Init ==
    \E n \in 0..MaxRestaurants :
      \E k \in 0..Min(n, MaxVisits) :
        \E vr \in [1..k -> 1..n] :
          /\ \A i, j \in 1..k : vr[i] = vr[j] => i = j
          /\ restaurants = [i \in 1..n |-> RestaurantRow(i, r_a)]
          /\ visits = [i \in 1..k |-> VisitRow(i, vr[i], v_dinner)]
          /\ restaurant_seq = n
          /\ visit_seq = k
          /\ issued = [restaurants |-> 1..n, visits |-> 1..k]
          /\ last = NoCall
          /\ running = TRUE
          /\ data_modified = FALSE
          /\ pc = "menu"
          /\ inflight = None

(* ------------------------------- actions ------------------------------ *)

\* The id of the entity a service call returned (NoId when it returned none).
ValueId(res) == IF res.value = None THEN NoId ELSE res.value[1].id

\* The presentation layer issues one service call and blocks until it returns:
\* the database becomes the call's, and last records the call and its outcome.
\* The database file becomes d and the record of the call l.  issued collects
\* every id a table has ever held a row under.
Committed(d, l) ==
    /\ restaurants' = d.restaurants
    /\ visits' = d.visits
    /\ restaurant_seq' = d.restaurant_seq
    /\ visit_seq' = d.visit_seq
    /\ issued' = [restaurants |-> issued.restaurants \cup DOMAIN d.restaurants,
                  visits |-> issued.visits \cup DOMAIN d.visits]
    /\ last' = l

\* A call ends where the caller is the program's user at the main menu or code
\* that holds a service, a repository or an entity class directly: the menu
\* loop and the call in flight, if any, stay as they are.
Ended(d, l) ==
    /\ Committed(d, l)
    /\ UNCHANGED <<running, data_modified, pc, inflight>>

Call(op, restaurant_id, visit_id, restaurant_fields, visit_fields, res) ==
    Ended(res.db,
          [NoCall EXCEPT !.op = op, !.restaurant_id = restaurant_id,
                         !.visit_id = visit_id,
                         !.restaurant_fields = restaurant_fields,
                         !.visit_fields = visit_fields,
                         !.exc = res.exc, !.value_id = ValueId(res)])

CreateRestaurant ==
    /\ restaurant_seq < MaxRestaurants
    /\ \E f \in RestaurantInputs :
         Call("create_restaurant", NoId, NoId, Some(f), None, create_restaurant(db, f))

UpdateRestaurant ==
    \E id \in RestaurantIds, f \in RestaurantInputs :
      Call("update_restaurant", id, NoId, Some(f), None, update_restaurant(db, id, f))

DeleteRestaurant ==
    \E id \in RestaurantIds :
      Call("delete_restaurant", id, NoId, None, None, delete_restaurant(db, id))

CreateVisit ==
    /\ visit_seq < MaxVisits
    /\ \E id \in RestaurantIds, f \in VisitInputs :
         Call("create_visit", id, NoId, None, Some(f), create_visit(db, id, f))

UpdateVisit ==
    \E vid \in VisitIds, id \in RestaurantIds, f \in VisitInputs :
      Call("update_visit", id, vid, None, Some(f), update_visit(db, vid, id, f))

DeleteVisit ==
    \E vid \in VisitIds :
      Call("delete_visit", NoId, vid, None, None, delete_visit(db, vid))

DeleteVisitForRestaurant ==
    \E id \in RestaurantIds :
      Call("delete_visit_for_restaurant", id, NoId, None, None,
           delete_visit_for_restaurant(db, id))

SearchRestaurants ==
    \E name \in SearchTerms :
      LET res == search_restaurants(db, name)
      IN  Ended(db, [NoCall EXCEPT !.op = "search_restaurants", !.text = name,
                                   !.exc = res.exc, !.value_ids = res.value])

GetVisitForRestaurant ==
    \E id \in RestaurantIds :
      LET res == get_visit_for_restaurant(db, id)
      IN  Ended(db, [NoCall EXCEPT !.op = "get_visit_for_restaurant",
                                   !.restaurant_id = id, !.exc = res.exc,
                                   !.value_id = ValueId(res),
                                   !.entity = res.value])

GetTopRatedVisits ==
    \E min_rating \in MinRatings :
      LET res == get_top_rated_visits(db, min_rating)
      IN  Ended(db, [NoCall EXCEPT !.op = "get_top_rated_visits",
                                   !.number = min_rating,
                                   !.exc = res.exc, !.value_ids = res.value])

GetVisitByMealType ==
    \E meal_type \in MealTypeInputs :
      LET res == get_visit_by_meal_type(db, meal_type)
      IN  Ended(db, [NoCall EXCEPT !.op = "get_visit_by_meal_type",
                                   !.text = meal_type,
                                   !.exc = res.exc, !.value_ids = res.value])

Next ==
    \/ SearchRestaurants
    \/ GetVisitForRestaurant
    \/ GetTopRatedVisits
    \/ GetVisitByMealType
    \/ CreateRestaurant
    \/ UpdateRestaurant
    \/ DeleteRestaurant
    \/ CreateVisit
    \/ UpdateVisit
    \/ DeleteVisit
    \/ DeleteVisitForRestaurant

Spec == Init /\ [][Next]_vars

(* ------------------------ the repository, directly --------------------- *)

\* The Restaurant instances a caller may hold to pass to the repository: one
\* per field set that constructs, its id None.
RestaurantEntities ==
    { Restaurant(NoId, f).value :
        f \in {g \in RestaurantInputs : Restaurant(NoId, g).exc = "None"} }

\* restaurant_repo.add(restaurant)
RepoAddRestaurant ==
    /\ restaurant_seq < MaxRestaurants
    /\ \E restaurant \in RestaurantEntities :
         LET res == SqliteRestaurantRepository_add(db, restaurant)
         IN  Ended(res.db,
                   [NoCall EXCEPT !.op = "restaurant_repo.add",
                                  !.restaurant_fields = Some(restaurant),
                                  !.exc = res.exc,
                                  !.value_id = res.value.id,
                                  !.entity = Some(res.value)])

\* restaurant_repo.get_by_id(restaurant_id)
RepoGetRestaurant ==
    \E id \in RestaurantIds :
      LET res == SqliteRestaurantRepository_get_by_id(db, id)
      IN  Ended(db, [NoCall EXCEPT !.op = "restaurant_repo.get_by_id",
                                   !.restaurant_id = id,
                                   !.exc = res.exc,
                                   !.value_id = ValueId(res),
                                   !.entity = res.value])

\* restaurant_repo.delete(restaurant_id)
RepoDeleteRestaurant ==
    \E id \in RestaurantIds :
      LET res == SqliteRestaurantRepository_delete(db, id)
      IN  Ended(res.db, [NoCall EXCEPT !.op = "restaurant_repo.delete",
                                       !.restaurant_id = id,
                                       !.exc = res.exc])

NextRepo ==
    \/ RepoAddRestaurant
    \/ RepoGetRestaurant
    \/ RepoDeleteRestaurant

\* A caller that holds the restaurant repository alone.
SpecRepo == Init /\ [][NextRepo]_vars

(* ------------------------ the entities, directly ----------------------- *)

s_Dinner == <<"D", "i", "n", "n", "e", "r">>

s_notes_padded == <<" ", "n", " ">>

\* Field values a caller passes to Visit(...): dates before, on and after the
\* current day, ratings and service ratings in and around 1..5, meal types as
\* stored, capitalized, unrecognized and empty, notes unset and with blanks
\* around them; every other field valid.
VisitFieldSets ==
    { [v_dinner EXCEPT !.visit_date = visit_date, !.rating = rating,
                       !.service_rating = service_rating,
                       !.meal_type = meal_type, !.notes = notes] :
        visit_date \in {<<2024, 1, 15>>, Today, <<2024, 6, 16>>},
        rating \in 0..6,
        service_rating \in {None, Some(0), Some(3), Some(6)},
        meal_type \in {s_dinner, s_Dinner, s_x, <<>>},
        notes \in {None, Some(s_notes_padded)} }

\* Visit(restaurant_id=1, **f)
ConstructVisit ==
    \E f \in VisitFieldSets :
      LET c == Visit(NoId, 1, f)
      IN  Ended(db, [NoCall EXCEPT !.op = "Visit", !.restaurant_id = 1,
                                   !.visit_fields = Some(f), !.exc = c.exc,
                                   !.entity = IF c.exc = "None"
                                              THEN Some(c.value) ELSE None])

\* Field values a caller passes to Restaurant(...): the ones the services are
\* given, and every combination of a required field that is valid, blank or
\* over its length, a price range in or out of 1..4 and a cuisine type unset
\* or over its length.
RestaurantFieldSets ==
    RestaurantInputs
    \cup { [r_a EXCEPT !.name = name, !.location = location,
                       !.country = country, !.price_range = price_range,
                       !.cuisine_type = cuisine_type] :
             name \in {s_a, <<" ">>, Text(NameMax + 1)},
             location \in {s_x, <<" ">>, Text(LocationMax + 1)},
             country \in {s_y, <<>>, Text(CountryMax + 1)},
             price_range \in {2, 5},
             cuisine_type \in {None, Some(Text(CuisineMax + 1))} }

\* Restaurant(**f)
ConstructRestaurant ==
    \E f \in RestaurantFieldSets :
      LET c == Restaurant(NoId, f)
      IN  Ended(db, [NoCall EXCEPT !.op = "Restaurant",
                                   !.restaurant_fields = Some(f), !.exc = c.exc,
                                   !.entity = IF c.exc = "None"
                                              THEN Some(c.value) ELSE None,
                                   !.message = IF c.exc = "None" THEN ""
                                               ELSE c.message])

NextEntity ==
    \/ ConstructVisit
    \/ ConstructRestaurant

\* A caller that constructs entities alone.
SpecEntity == Init /\ [][NextEntity]_vars

(* ------------------ update_restaurant and another actor ---------------- *)

\* RestaurantService.update_restaurant up to its persist step: the existence
\* check, then the construction of the updated Restaurant.  A failure of
\* either ends the call; otherwise the call is in flight with the instance to
\* persist.
UpdateRestaurantCheck ==
    /\ pc = "menu"
    /\ \E id \in RestaurantIds, f \in RestaurantInputs :
         LET existing == SqliteRestaurantRepository_get_by_id(db, id)
             updated_restaurant == Restaurant(id, f)
             l == [NoCall EXCEPT !.op = "update_restaurant",
                                 !.restaurant_id = id,
                                 !.restaurant_fields = Some(f)]
         IN  IF existing.exc # "None"
             THEN Ended(db, [l EXCEPT !.exc = existing.exc])
             ELSE IF existing.value = None
             THEN Ended(db, [l EXCEPT !.exc = "NotFoundError"])
             ELSE IF updated_restaurant.exc # "None"
             THEN Ended(db, [l EXCEPT !.exc = updated_restaurant.exc])
             ELSE /\ pc' = "update_restaurant"
                  /\ inflight' = Some([restaurant_id |-> id, fields |-> f,
                                       updated_restaurant |->
                                         updated_restaurant.value])
                  /\ UNCHANGED <<restaurants, visits, restaurant_seq, visit_seq,
                                 issued, last, running, data_modified>>

\* RestaurantService.update_restaurant from its persist step on.
UpdateRestaurantPersist ==
    /\ pc = "update_restaurant"
    /\ LET c == inflight[1]
           u == SqliteRestaurantRepository_update(db, c.updated_restaurant)
           l == [NoCall EXCEPT !.op = "update_restaurant",
                               !.restaurant_id = c.restaurant_id,
                               !.restaurant_fields = Some(c.fields),
                               !.entity = Some(c.updated_restaurant)]
       IN  /\ Committed(u.db,
                        IF ~u.value THEN [l EXCEPT !.exc = "NotFoundError"]
                        ELSE [l EXCEPT !.value_id = c.restaurant_id])
           /\ pc' = "menu"
           /\ inflight' = None
           /\ UNCHANGED <<running, data_modified>>

\* update_restaurant in two steps, and another process that holds the same
\* database file and adds and deletes restaurants rows at any moment.
NextRace ==
    \/ UpdateRestaurantCheck
    \/ UpdateRestaurantPersist
    \/ RepoAddRestaurant
    \/ RepoDeleteRestaurant

SpecRace == Init /\ [][NextRace]_vars

(* ----------------------- the validator, directly ----------------------- *)

\* str(n), zero-filled to two digits when pad holds
TwoDigits(n, pad) ==
    IF n < 10 /\ ~pad THEN <<DigitChars[n + 1]>>
    ELSE <<DigitChars[(n \div 10) + 1], DigitChars[(n % 10) + 1]>>

FourDigits(n) ==
    <<DigitChars[(n \div 1000) + 1], DigitChars[((n \div 100) % 10) + 1],
      DigitChars[((n \div 10) % 10) + 1], DigitChars[(n % 10) + 1]>>

\* The date d written in the format f (date.strftime), day and month
\* zero-filled or not.
Written(d, f, pad_month, pad_day) ==
    IF f.year_first
    THEN FourDigits(d[1]) \o <<f.sep>> \o TwoDigits(d[2], pad_month)
         \o <<f.sep>> \o TwoDigits(d[3], pad_day)
    ELSE TwoDigits(d[3], pad_day) \o <<f.sep>> \o TwoDigits(d[2], pad_month)
         \o <<f.sep>> \o FourDigits(d[1])

\* Days a user may type: before, on and after the current day, a leap day,
\* and two that no calendar has.
TypedDays ==
    {<<2024, 1, 15>>, <<2024, 3, 5>>, Today, <<2024, 6, 16>>, <<2025, 1, 1>>,
     <<2024, 2, 29>>, <<2023, 2, 29>>, <<2024, 4, 31>>}

\* Texts a user may type as a date: every typed day in each of the three
\* formats, zero-filled and not, with and without blanks around; the year
\* first with slashes, dots for separators, a two-digit year, a day written
\* with a blank for its zero, letters, and nothing.
DateTexts ==
    { Written(d, formats[i], pad, pad) : d \in TypedDays, i \in 1..3, pad \in BOOLEAN }
    \cup { <<" ">> \o Written(d, formats[i], TRUE, TRUE) \o <<" ">> :
             d \in {<<2024, 1, 15>>, <<2024, 6, 16>>}, i \in 1..3 }
    \cup { <<"2", "0", "2", "4", "/", "0", "3", "/", "1", "5">>,
           <<"1", "5", ".", "0", "3", ".", "2", "0", "2", "4">>,
           <<"1", "5", "/", "0", "3", "/", "2", "4">>,
           <<"2", "0", "2", "4", "-", "0", "3", "-", " ", "5">>,
           <<"1", "5", "-", "0", "3", "/", "2", "0", "2", "4">>,
           <<"a", "b", "c">>, <<>>, <<" ">> }

\* validator.validate_date(value)
ValidateDate ==
    \E value \in DateTexts :
      LET res == validate_date(value)
      IN  Ended(db, [NoCall EXCEPT !.op = "validate_date", !.text = value,
                                   !.exc = res.exc, !.entity = res.value,
                                   !.message = IF res.exc = "None" THEN ""
                                               ELSE res.message])

NextValidator == ValidateDate

\* A caller that parses dates alone.
SpecValidator == Init /\ [][NextValidator]_vars

(* ------------------------------- the CLI ------------------------------ *)

\* The classes an exception is an instance of: its own class and the classes
\* above it (exceptions.py; AttributeError and ValueError are builtins).
Classes(e) ==
    CASE e = "ValidationError" ->
           {"ValidationError", "BiteTrackerError", "Exception"}
      [] e = "RepositoryError" ->
           {"RepositoryError", "BiteTrackerError", "Exception"}
      [] e = "NotFoundError" ->
           {"NotFoundError", "RepositoryError", "BiteTrackerError", "Exception"}
      [] e = "BusinessRuleViolationError" ->
           {"BusinessRuleViolationError", "BiteTrackerError", "Exception"}
      [] e = "AttributeError" -> {"AttributeError", "Exception"}
      [] e = "ValueError" -> {"ValueError", "Exception"}
      [] OTHER -> {}

\* int(text) of a typed text: blanks around the digits are passed over, and
\* anything else than digits raises ValueError (the typed texts of the model
\* hold no sign and no underscore).
int(text) ==
    IF strip(text) # <<>> /\ AllDigits(strip(text))
    THEN Return(ToInt(strip(text)))
    ELSE Raise("ValueError")

\* input(...).strip() or None
OrNone(text) == IF strip(text) = <<>> THEN None ELSE Some(strip(text))

\* What the body of a handler's try statement comes to: the exception that
\* left it ("None": it ran to its end or to a return), the database, and the
\* message the body printed last.
Body(e, d, printed) == [exc |-> e, db |-> d, printed |-> printed]

\* The except clauses of the handlers, by the classes they name.
add_restaurant_except == {"ValidationError", "ValueError", "Exception"}

view_all_restaurants_except == {"Exception"}

search_restaurants_except == {"ValidationError", "Exception"}

filter_by_country_except == {"ValidationError", "Exception"}

delete_restaurant_except ==
    {"NotFoundError", "BusinessRuleViolationError", "ValueError", "Exception"}

\* As add_visit_except, were the last clause, "except Exception", left out.
add_visit_except_named ==
    {"NotFoundError", "BusinessRuleViolationError", "ValidationError",
     "ValueError"}

add_visit_except ==
    {"NotFoundError", "BusinessRuleViolationError", "ValidationError",
     "ValueError", "Exception"}

view_all_visits_except == {"Exception"}

filter_visits_by_rating_except == {"ValidationError", "ValueError", "Exception"}

filter_visits_by_meal_type_except == {"ValidationError", "Exception"}

delete_visit_except == {"NotFoundError", "ValueError", "Exception"}

\* try: body, except <clauses>: every clause prints an error with print_error
\* and the handler returns; an exception that no clause names leaves the
\* handler (escaped).
Try(body, clauses) ==
    [exc |-> body.exc, db |-> body.db,
     escaped |-> body.exc # "None" /\ Classes(body.exc) \cap clauses = {},
     printed |-> IF body.exc = "None" THEN body.printed
                 ELSE IF Classes(body.exc) \cap clauses # {} THEN "error"
                 ELSE ""]

\* The exception that ends a loop of a handler over a list, given the
\* outcomes of the call the loop makes for each element: "None" when no call
\* raises (the calls of the model fail alike, whichever element comes first).
Each(outcomes) ==
    LET raised == {o.exc : o \in outcomes} \ {"None"}
    IN  IF raised = {} THEN "None" ELSE CHOOSE e \in raised : TRUE

\* CLIHandler.add_restaurant; typed holds the eight texts typed.
CLIHandler_add_restaurant(d, typed) ==
    LET price_range == int(typed.price_range)
    IN  IF price_range.exc # "None" THEN Body(price_range.exc, d, "")
        ELSE LET restaurant ==
                   create_restaurant(d,
                     [name |-> strip(typed.name),
                      location |-> strip(typed.location),
                      country |-> strip(typed.country),
                      price_range |-> price_range.value,
                      cuisine_type |-> OrNone(typed.cuisine_type),
                      phone |-> OrNone(typed.phone),
                      website |-> OrNone(typed.website),
                      social_media |-> OrNone(typed.social_media)])
             IN  Body(restaurant.exc, restaurant.db, "success")

\* CLIHandler.view_all_restaurants
CLIHandler_view_all_restaurants(d) ==
    LET restaurants_ == get_all_restaurants(d)
    IN  IF restaurants_.exc # "None" THEN Body(restaurants_.exc, d, "")
        ELSE IF restaurants_.value[1] = {} THEN Body("None", d, "none found")
        ELSE Body("None", d, "list")

\* CLIHandler.search_restaurants
CLIHandler_search_restaurants(d, typed) ==
    LET results == search_restaurants(d, strip(typed))
    IN  IF results.exc # "None" THEN Body(results.exc, d, "")
        ELSE IF results.value[1] = {} THEN Body("None", d, "none found")
        ELSE Body("None", d, "list")

\* CLIHandler.filter_by_country
CLIHandler_filter_by_country(d, typed) ==
    LET results == get_restaurants_by_country(d, strip(typed))
    IN  IF results.exc # "None" THEN Body(results.exc, d, "")
        ELSE IF results.value[1] = {} THEN Body("None", d, "none found")
        ELSE Body("None", d, "list")

\* CLIHandler.delete_restaurant; typed holds the id and the confirmation.
CLIHandler_delete_restaurant(d, typed) ==
    LET restaurants_ == get_all_restaurants(d)
        restaurant_id == int(typed.restaurant_id)
    IN  IF restaurants_.exc # "None" THEN Body(restaurants_.exc, d, "")
        ELSE IF restaurants_.value[1] = {} THEN Body("None", d, "none found")
        ELSE IF lower(strip(typed.confirm)) # <<"y", "e", "s">>
        THEN Body("None", d, "cancelled")
        ELSE IF restaurant_id.exc # "None" THEN Body(restaurant_id.exc, d, "")
        ELSE LET x == delete_restaurant(d, restaurant_id.value)
             IN  Body(x.exc, x.db, "success")

\* CLIHandler.add_visit; typed holds the texts typed (the optional texts
\* other than the service rating are left empty).
CLIHandler_add_visit(d, typed) ==
    LET restaurants_ == get_all_restaurants(d)
        existing_visit(r) == get_visit_for_restaurant(d, r)
        listed == IF restaurants_.exc = "None" THEN restaurants_.value[1] ELSE {}
        status == Each({existing_visit(r) : r \in listed})
        visit_date == validate_date(strip(typed.visit_date))
        service_rating == OrNone(typed.service_rating)
        service_rating_int == IF service_rating = None THEN Return(None)
                              ELSE int(service_rating[1])
        restaurant_id == int(typed.restaurant_id)
        rating == int(typed.rating)
    IN  IF restaurants_.exc # "None" THEN Body(restaurants_.exc, d, "")
        ELSE IF restaurants_.value[1] = {} THEN Body("None", d, "none found")
        ELSE IF status # "None" THEN Body(status, d, "")
        ELSE IF visit_date.exc # "None" THEN Body(visit_date.exc, d, "")
        ELSE IF service_rating_int.exc # "None"
        THEN Body(service_rating_int.exc, d, "")
        ELSE IF restaurant_id.exc # "None" THEN Body(restaurant_id.exc, d, "")
        ELSE IF rating.exc # "None" THEN Body(rating.exc, d, "")
        ELSE LET visit ==
                   create_visit(d, restaurant_id.value,
                     [visit_date |-> visit_date.value[1],
                      rating |-> rating.value,
                      meal_type |-> strip(typed.meal_type),
                      service_rating |->
                        IF service_rating = None THEN None
                        ELSE Some(service_rating_int.value),
                      dishes_ordered |-> None, recommended_dishes |-> None,
                      beverage_ordered |-> None, total_cost |-> None,
                      notes |-> None,
                      would_return |->
                        lower(strip(typed.would_return))
                          \in {<<>>, <<"y", "e", "s">>, <<"y">>}])
             IN  Body(visit.exc, visit.db, "success")

\* The loop of a handler over the visits it lists: get_restaurant of each.
RestaurantOfEach(d, visit_ids) ==
    LET restaurant(v) == get_restaurant(d, d.visits[v].restaurant_id)
    IN  Each({restaurant(v) : v \in visit_ids})

\* CLIHandler.view_all_visits
CLIHandler_view_all_visits(d) ==
    LET visits_ == get_all_visits(d)
    IN  IF visits_.exc # "None" THEN Body(visits_.exc, d, "")
        ELSE IF visits_.value[1] = {} THEN Body("None", d, "none found")
        ELSE Body(RestaurantOfEach(d, visits_.value[1]), d, "list")

\* CLIHandler.filter_visits_by_rating
CLIHandler_filter_visits_by_rating(d, typed) ==
    LET min_rating == int(typed)
    IN  IF min_rating.exc # "None" THEN Body(min_rating.exc, d, "")
        ELSE LET visits_ == get_top_rated_visits(d, min_rating.value)
             IN  IF visits_.exc # "None" THEN Body(visits_.exc, d, "")
                 ELSE IF visits_.value[1] = {} THEN Body("None", d, "none found")
                 ELSE Body(RestaurantOfEach(d, visits_.value[1]), d, "list")

\* CLIHandler.filter_visits_by_meal_type: the handler calls
\* self.visit_service.get_visits_by_meal_type, and VisitService has no
\* attribute of that name (its method is get_visit_by_meal_type), so the
\* attribute lookup raises AttributeError whatever was typed.
CLIHandler_filter_visits_by_meal_type(d, typed) == Body("AttributeError", d, "")

\* CLIHandler.delete_visit; typed holds the id and the confirmation.
CLIHandler_delete_visit(d, typed) ==
    LET visits_ == get_all_visits(d)
        visit_id == int(typed.visit_id)
    IN  IF visits_.exc # "None" THEN Body(visits_.exc, d, "")
        ELSE IF visits_.value[1] = {} THEN Body("None", d, "none found")
        ELSE IF RestaurantOfEach(d, visits_.value[1]) # "None"
        THEN Body(RestaurantOfEach(d, visits_.value[1]), d, "")
        ELSE IF lower(strip(typed.confirm)) # <<"y", "e", "s">>
        THEN Body("None", d, "cancelled")
        ELSE IF visit_id.exc # "None" THEN Body(visit_id.exc, d, "")
        ELSE LET x == delete_visit(d, visit_id.value)
             IN  Body(x.exc, x.db, "success")

\* Texts typed where a number is asked for: numbers in and out of the ranges
\* and of the stored ids, one with blanks around, letters, and nothing.
NumberTexts ==
    {<<"1">>, <<"2">>, <<" ", "3", " ">>, <<"5">>, <<"9">>, <<"x">>, <<>>}

\* The optional text of the field values f, as it is typed
TypedOpt(o) == IF o = None THEN <<>> ELSE o[1]

\* The texts typed for a restaurant: the field values of RestaurantInputs with
\* each of the number texts for the price range.
TypedRestaurants ==
    { [name |-> f.name, location |-> f.location, country |-> f.country,
       price_range |-> p, cuisine_type |-> TypedOpt(f.cuisine_type),
       phone |-> TypedOpt(f.phone), website |-> TypedOpt(f.website),
       social_media |-> TypedOpt(f.social_media)] :
      f \in RestaurantInputs, p \in NumberTexts }

TypedCountries == {<<>>, <<" ">>, s_y, <<" ", "y", " ">>, <<"z">>}

TypedConfirmations == {<<"y", "e", "s">>, <<" ", "Y", "e", "s">>, <<"n", "o">>, <<>>}

\* The texts typed for a visit
TypedVisits ==
    [restaurant_id : {<<"1">>, <<"9">>, <<"x">>},
     visit_date : {<<"2", "0", "2", "4", "-", "0", "1", "-", "1", "5">>,
                   <<"1", "6", "/", "0", "6", "/", "2", "0", "2", "4">>,
                   <<"a", "b", "c">>},
     rating : {<<"5">>, <<"9">>, <<"x">>},
     meal_type : {s_dinner, <<>>},
     service_rating : {<<>>, <<"4">>, <<"x">>},
     would_return : {<<>>, <<"n", "o">>}]

\* Choices typed at the menu that are none of '0' .. '10'
OtherChoices == {<<>>, <<"1", "1">>, <<"x">>, <<"0", "0">>}

\* MainMenu.run, one turn of the loop in which handle_choice calls a handler:
\* the menu is shown, choice is typed, the handler runs its try statement (h
\* is what that comes to), and then data_modified is set where the branch
\* sets it, pause() returns and the loop tests self.running again.  An
\* exception that leaves the handler leaves handle_choice and run too: the
\* rest of the branch is skipped and the loop is over.
Turn(choice, op, h, modifies) ==
    /\ pc = "menu"
    /\ running
    /\ Committed(h.db, [NoCall EXCEPT !.op = op, !.text = choice,
                                      !.exc = h.exc, !.message = h.printed])
    /\ running' = running
    /\ data_modified' = IF h.escaped THEN data_modified
                        ELSE (data_modified \/ modifies)
    /\ pc' = IF h.escaped THEN "raised" ELSE "menu"
    /\ inflight' = inflight

\* choice '1'
MenuAddRestaurant ==
    /\ restaurant_seq < MaxRestaurants
    /\ \E typed \in TypedRestaurants :
         Turn(<<"1">>, "cli.add_restaurant",
              Try(CLIHandler_add_restaurant(db, typed), add_restaurant_except),
              TRUE)

\* choice '2'
MenuViewAllRestaurants ==
    Turn(<<"2">>, "cli.view_all_restaurants",
         Try(CLIHandler_view_all_restaurants(db), view_all_restaurants_except),
         FALSE)

\* choice '3'
MenuSearchRestaurants ==
    \E typed \in SearchTerms :
      Turn(<<"3">>, "cli.search_restaurants",
           Try(CLIHandler_search_restaurants(db, typed), search_restaurants_except),
           FALSE)

\* choice '4'
MenuFilterByCountry ==
    \E typed \in TypedCountries :
      Turn(<<"4">>, "cli.filter_by_country",
           Try(CLIHandler_filter_by_country(db, typed), filter_by_country_except),
           FALSE)

\* choice '5'
MenuDeleteRestaurant ==
    \E typed \in [restaurant_id : NumberTexts, confirm : TypedConfirmations] :
      Turn(<<"5">>, "cli.delete_restaurant",
           Try(CLIHandler_delete_restaurant(db, typed), delete_restaurant_except),
           TRUE)

\* choice '6'
MenuAddVisit ==
    /\ visit_seq < MaxVisits
    /\ \E typed \in TypedVisits :
         Turn(<<"6">>, "cli.add_visit",
              Try(CLIHandler_add_visit(db, typed), add_visit_except),
              TRUE)

\* choice '7'
MenuViewAllVisits ==
    Turn(<<"7">>, "cli.view_all_visits",
         Try(CLIHandler_view_all_visits(db), view_all_visits_except),
         FALSE)

\* choice '8'
MenuFilterVisitsByRating ==
    \E typed \in NumberTexts :
      Turn(<<"8">>, "cli.filter_visits_by_rating",
           Try(CLIHandler_filter_visits_by_rating(db, typed),
               filter_visits_by_rating_except),
           FALSE)

\* choice '9'
MenuFilterVisitsByMealType ==
    \E typed \in MealTypeInputs :
      Turn(<<"9">>, "cli.filter_visits_by_meal_type",
           Try(CLIHandler_filter_visits_by_meal_type(db, typed),
               filter_visits_by_meal_type_except),
           FALSE)

\* choice '10'
MenuDeleteVisit ==
    \E typed \in [visit_id : NumberTexts, confirm : TypedConfirmations] :
      Turn(<<"1", "0">>, "cli.delete_visit",
           Try(CLIHandler_delete_visit(db, typed), delete_visit_except),
           TRUE)

\* choice '0': MainMenu.exit_application sets running to False, and the loop
\* of run ends at its next test.
MenuExit ==
    /\ pc = "menu"
    /\ running
    /\ Committed(db, [NoCall EXCEPT !.op = "cli.exit_application",
                                    !.text = <<"0">>,
                                    !.message = IF data_modified THEN "saved"
                                                ELSE "bye"])
    /\ running' = FALSE
    /\ pc' = "returned"
    /\ UNCHANGED <<data_modified, inflight>>

\* any other choice: "Invalid choice", pause(), and the menu again
MenuInvalidChoice ==
    /\ pc = "menu"
    /\ running
    /\ \E choice \in OtherChoices :
         Committed(db, [NoCall EXCEPT !.op = "cli.invalid_choice",
                                      !.text = choice,
                                      !.message = "invalid choice"])
    /\ UNCHANGED <<running, data_modified, pc, inflight>>

NextCli ==
    \/ MenuAddRestaurant
    \/ MenuViewAllRestaurants
    \/ MenuSearchRestaurants
    \/ MenuFilterByCountry
    \/ MenuDeleteRestaurant
    \/ MenuAddVisit
    \/ MenuViewAllVisits
    \/ MenuFilterVisitsByRating
    \/ MenuFilterVisitsByMealType
    \/ MenuDeleteVisit
    \/ MenuExit
    \/ MenuInvalidChoice

\* The program as its user drives it: choices typed at the main menu.
SpecCli == Init /\ [][NextCli]_vars

(* ------------------------------- claims ------------------------------- *)

\* The restaurant has a visits row.
HasVisit(vs, restaurant_id) ==
    \E i \in DOMAIN vs : vs[i].restaurant_id = restaurant_id

\* The step is a call of op.
Called(op) == last'.op = op

\* C1: after any sequence of service operations, no restaurant identifier is
\* referenced by more than one stored Visit.
C1_OneVisitPerRestaurant ==
    \A i, j \in DOMAIN visits :
      visits[i].restaurant_id = visits[j].restaurant_id => i = j

\* C1 witness: create_visit was called for a stored restaurant that has a visit.
C1_Witness ==
    /\ last.op = "create_visit"
    /\ last.restaurant_id \in DOMAIN restaurants
    /\ HasVisit(visits, last.restaurant_id)

\* C2: after any sequence of service operations, every stored Visit's
\* restaurant_id is the identifier of a stored Restaurant.
C2_NoOrphanVisit ==
    \A i \in DOMAIN visits : visits[i].restaurant_id \in DOMAIN restaurants

\* C2 witness: delete_restaurant was called for a restaurant that has a visit,
\* and the restaurant is still stored.
C2_Witness ==
    /\ last.op = "delete_restaurant"
    /\ last.restaurant_id \in DOMAIN restaurants
    /\ HasVisit(visits, last.restaurant_id)

\* C3: for a stored restaurant without a visit, create_visit with a date not
\* after today, a rating in 1..5 and a recognized meal type raises nothing,
\* stores exactly one new Visit referencing the restaurant and returns it with
\* the identifier the storage assigned.
C3_CreateVisitSucceeds ==
    [][ ( /\ Called("create_visit")
          /\ last'.restaurant_id \in DOMAIN restaurants
          /\ ~HasVisit(visits, last'.restaurant_id)
          /\ last'.visit_fields[1] \in ValidVisitInputs )
        => ( /\ last'.exc = "None"
             /\ last'.value_id \in DOMAIN visits' \ DOMAIN visits
             /\ DOMAIN visits' = DOMAIN visits \cup {last'.value_id}
             /\ visits'[last'.value_id].restaurant_id = last'.restaurant_id
             /\ \A i \in DOMAIN visits : visits'[i] = visits[i] ) ]_vars

\* C4: when the restaurant already has a stored Visit, create_visit fails with
\* BusinessRuleViolationError whatever the other fields are, and the stored
\* visits are unchanged.
C4_SecondVisitRefused ==
    [][ ( /\ Called("create_visit")
          /\ HasVisit(visits, last'.restaurant_id) )
        => ( /\ last'.exc = "BusinessRuleViolationError"
             /\ visits' = visits ) ]_vars

\* C5: create_visit for a restaurant_id that names no stored restaurant fails
\* with NotFoundError whatever the other field values are, and stores no visit.
C5_CreateVisitUnknownRestaurant ==
    [][ ( /\ Called("create_visit")
          /\ last'.restaurant_id \notin DOMAIN restaurants )
        => ( /\ last'.exc = "NotFoundError"
             /\ visits' = visits ) ]_vars

\* C5 witness: create_visit was called with invalid field values for a
\* restaurant_id that names no stored restaurant, and raised NotFoundError.
C5_Witness ==
    /\ last.op = "create_visit"
    /\ last.restaurant_id \notin DOMAIN restaurants
    /\ last.visit_fields[1] \in InvalidVisitInputs
    /\ last.exc = "NotFoundError"

\* C6: for a stored restaurant with a Visit, delete_restaurant fails with
\* BusinessRuleViolationError and leaves both stored; delete_visit_for_restaurant
\* then succeeds and removes the visit; delete_restaurant of the restaurant, now
\* without a visit, then succeeds and removes it.
C6_DeleteVisitThenRestaurant ==
    [][ /\ ( /\ Called("delete_restaurant")
             /\ last'.restaurant_id \in DOMAIN restaurants
             /\ HasVisit(visits, last'.restaurant_id) )
           => ( /\ last'.exc = "BusinessRuleViolationError"
                /\ restaurants' = restaurants
                /\ visits' = visits )
        /\ ( /\ Called("delete_visit_for_restaurant")
             /\ last'.restaurant_id \in DOMAIN restaurants
             /\ HasVisit(visits, last'.restaurant_id) )
           => ( /\ last'.exc = "None"
                /\ ~HasVisit(visits', last'.restaurant_id) )
        /\ ( /\ Called("delete_restaurant")
             /\ last'.restaurant_id \in DOMAIN restaurants
             /\ ~HasVisit(visits, last'.restaurant_id) )
           => ( /\ last'.exc = "None"
                /\ last'.restaurant_id \notin DOMAIN restaurants' ) ]_vars

C8_UpdateVisitFailures ==
    [][ Called("update_visit") =>
        /\ last'.visit_id \notin DOMAIN visits
           => (last'.exc = "NotFoundError" /\ visits' = visits)
        /\ ( /\ last'.visit_id \in DOMAIN visits
             /\ last'.restaurant_id \notin DOMAIN restaurants )
           => (last'.exc = "NotFoundError" /\ visits' = visits)
        /\ ( /\ last'.visit_id \in DOMAIN visits
             /\ last'.restaurant_id \in DOMAIN restaurants
             /\ last'.restaurant_id # visits[last'.visit_id].restaurant_id
             /\ HasVisit(visits, last'.restaurant_id) )
           => (last'.exc = "BusinessRuleViolationError" /\ visits' = visits) ]_vars

\* C9: update_visit of a stored visit with its restaurant_id unchanged and valid
\* field values succeeds: the stored visit keeps its identifier and restaurant
\* and carries the new field values, and the stored visits are otherwise the
\* same.
C9_UpdateVisitSameRestaurant ==
    [][ ( /\ Called("update_visit")
          /\ last'.visit_id \in DOMAIN visits
          /\ last'.restaurant_id = visits[last'.visit_id].restaurant_id
          /\ last'.visit_fields[1] \in ValidVisitInputs )
        => ( /\ last'.exc = "None"
             /\ DOMAIN visits' = DOMAIN visits
             /\ visits'[last'.visit_id] =
                  VisitRow(last'.visit_id, last'.restaurant_id,
                           last'.visit_fields[1])
             /\ \A i \in DOMAIN visits \ {last'.visit_id} :
                  visits'[i] = visits[i] ) ]_vars

\* C10: delete_visit fails with NotFoundError and changes nothing when no visit
\* with the id is stored; otherwise it removes exactly that visit and leaves
\* every other visit and every restaurant unchanged.
C10_DeleteVisit ==
    [][ Called("delete_visit") =>
        /\ last'.visit_id \notin DOMAIN visits
           => ( /\ last'.exc = "NotFoundError"
                /\ visits' = visits
                /\ restaurants' = restaurants )
        /\ last'.visit_id \in DOMAIN visits
           => ( /\ last'.exc = "None"
                /\ visits' = Without(visits, last'.visit_id)
                /\ restaurants' = restaurants ) ]_vars

\* The values update_restaurant / create_restaurant store for the fields f
\* under id: the strings trimmed, the unset and the empty optional ones as given.
Stored(id, f) ==
    [id |-> id, name |-> strip(f.name), location |-> strip(f.location),
     country |-> strip(f.country), price_range |-> f.price_range,
     cuisine_type |-> StripOpt(f.cuisine_type), phone |-> StripOpt(f.phone),
     website |-> StripOpt(f.website), social_media |-> StripOpt(f.social_media)]

\* C11: update_restaurant(id, fields) fails with NotFoundError when id is not
\* stored; when it is stored and the fields are invalid it fails with
\* ValidationError and the stored record is unchanged; when it is stored and
\* the fields are valid the record under id holds the new values, and no visit
\* and no other restaurant changes.
C11_UpdateRestaurant ==
    [][ Called("update_restaurant") =>
        LET id == last'.restaurant_id
            f == last'.restaurant_fields[1]
        IN  IF id \notin DOMAIN restaurants
            THEN last'.exc = "NotFoundError" /\ restaurants' = restaurants
                 /\ visits' = visits
            ELSE IF Restaurant(id, f).exc # "None"
            THEN last'.exc = "ValidationError" /\ restaurants' = restaurants
                 /\ visits' = visits
            ELSE /\ last'.exc = "None"
                 /\ last'.value_id = id
                 /\ DOMAIN restaurants' = DOMAIN restaurants
                 /\ restaurants'[id] = Stored(id, f)
                 /\ \A i \in DOMAIN restaurants \ {id} :
                      restaurants'[i] = restaurants[i]
                 /\ visits' = visits ]_vars

\* C11 witness: update_restaurant replaced a stored record by new values that
\* differ from the ones the table held at the start.
C11_Witness ==
    /\ last.op = "update_restaurant"
    /\ last.exc = "None"
    /\ last.restaurant_id \in DOMAIN restaurants
    /\ restaurants[last.restaurant_id] =
         Stored(last.restaurant_id, last.restaurant_fields[1])
    /\ restaurants[last.restaurant_id].name # r_a.name

\* C12: the ids add assigns are unique and strictly increasing in order of
\* insertion, in the restaurants table and in the visits table: a row that
\* appears has an id greater than every id its table has ever held, so an id
\* freed by delete is never assigned again.
C12_IdsNeverReused ==
    [][ /\ \A id \in DOMAIN restaurants' \ DOMAIN restaurants :
             /\ id \notin issued.restaurants
             /\ \A j \in issued.restaurants : j < id
        /\ \A id \in DOMAIN visits' \ DOMAIN visits :
             /\ id \notin issued.visits
             /\ \A j \in issued.visits : j < id
        /\ (Called("restaurant_repo.add") /\ last'.exc = "None")
           => DOMAIN restaurants' \ DOMAIN restaurants = {last'.value_id} ]_vars

\* C12 witness: add has just inserted a restaurant into a table all of whose
\* earlier ids, the greatest one included, were freed by delete.
C12_Witness ==
    /\ last.op = "restaurant_repo.add"
    /\ last.exc = "None"
    /\ last.value_id > 1
    /\ DOMAIN restaurants = {last.value_id}
    /\ issued.restaurants = 1..last.value_id

\* C13: get_by_id(add(r).id), with no write between the two calls, returns a
\* restaurant equal to r in every field but the id.
C13_AddThenGetById ==
    [][ ( /\ last.op = "restaurant_repo.add"
          /\ last.exc = "None"
          /\ Called("restaurant_repo.get_by_id")
          /\ last'.restaurant_id = last.value_id )
        => ( /\ last'.exc = "None"
             /\ last'.entity =
                  Some([last.restaurant_fields[1] EXCEPT !.id = last.value_id]) )
      ]_vars

\* C13 witness: get_by_id returned a restaurant with an optional field set,
\* which only add can have stored.
C13_Witness ==
    /\ last.op = "restaurant_repo.get_by_id"
    /\ last.exc = "None"
    /\ last.entity # None
    /\ last.entity[1].cuisine_type # None
    /\ last.entity[1].name # r_a.name

\* The database file is left as it was.
StoreUnchanged == UNCHANGED <<restaurants, visits, restaurant_seq, visit_seq>>

\* C14: get_visit_for_restaurant(restaurant_id) never fails: it returns the
\* stored Visit of the restaurant when there is one and none otherwise (also
\* when the restaurant does not exist), and changes nothing.
C14_GetVisitForRestaurant ==
    [][ Called("get_visit_for_restaurant") =>
        /\ last'.exc = "None"
        /\ StoreUnchanged
        /\ IF HasVisit(visits, last'.restaurant_id)
           THEN /\ last'.value_id \in DOMAIN visits
                /\ visits[last'.value_id].restaurant_id = last'.restaurant_id
           ELSE last'.value_id = NoId ]_vars

\* C15: get_top_rated_visits(min_rating) fails with ValidationError for every
\* min_rating outside 1..5, and for min_rating in 1..5 returns exactly the
\* stored visits with rating >= min_rating.
C15_GetTopRatedVisits ==
    [][ Called("get_top_rated_visits") =>
        IF last'.number \notin 1..5
        THEN last'.exc = "ValidationError"
        ELSE /\ last'.exc = "None"
             /\ last'.value_ids =
                  Some({i \in DOMAIN visits : visits[i].rating >= last'.number})
      ]_vars

\* C16: get_visit_by_meal_type(value) fails with ValidationError when value is
\* blank or, trimmed and lower-cased, none of the five meal types; for a
\* recognized value it returns exactly the stored visits of that meal type.
C16_GetVisitByMealType ==
    [][ Called("get_visit_by_meal_type") =>
        LET normalized == lower(strip(last'.text))
        IN  IF normalized \notin valid_meal_types
            THEN last'.exc = "ValidationError"
            ELSE /\ last'.exc = "None"
                 /\ last'.value_ids =
                      Some({i \in DOMAIN visits :
                              visits[i].meal_type = normalized}) ]_vars

DateOk(f) == ~DateGT(f.visit_date, Today)

RatingOk(f) == f.rating \in 1..5

ServiceRatingOk(f) == f.service_rating = None \/ f.service_rating[1] \in 1..5

MealTypeOk(f) == lower(f.meal_type) \in valid_meal_types

\* s has no blank at either end
Trimmed(s) == strip(s) = s

TrimmedOpt(o) == o = None \/ Trimmed(o[1])

\* C18: constructing a Visit whose other fields are valid fails with
\* ValidationError for every rating outside 1..5 and for every service rating
\* that is set and outside 1..5; no other kind of error is raised.
C18_VisitRatingRefused ==
    [][ ( /\ Called("Visit")
          /\ DateOk(last'.visit_fields[1])
          /\ MealTypeOk(last'.visit_fields[1])
          /\ \/ ~RatingOk(last'.visit_fields[1])
             \/ ~ServiceRatingOk(last'.visit_fields[1]) )
        => last'.exc = "ValidationError" ]_vars

\* C19: constructing a Visit whose other fields are valid fails with
\* ValidationError for every visit_date later than the current day, and no
\* stored visit has a later date.
C19_VisitFutureDateRefused ==
    [][ /\ ( /\ Called("Visit")
             /\ ~DateOk(last'.visit_fields[1])
             /\ RatingOk(last'.visit_fields[1])
             /\ ServiceRatingOk(last'.visit_fields[1])
             /\ MealTypeOk(last'.visit_fields[1]) )
           => last'.exc = "ValidationError"
        /\ \A i \in DOMAIN visits' : ~DateGT(visits'[i].visit_date, Today) ]_vars

DocumentedErrors ==
    {"ValidationError", "RepositoryError", "NotFoundError",
     "BusinessRuleViolationError"}

\* C21: entities raise only ValidationError and the storage layer raises only
\* RepositoryError, so a call of a service operation (or a construction of an
\* entity) ends by returning or with one of ValidationError, RepositoryError,
\* NotFoundError and BusinessRuleViolationError.
C21_OnlyDocumentedErrors ==
    last.exc \in DocumentedErrors \cup {"None"}

\* C22: when the restaurant repository's delete(id) removes a restaurants row,
\* no visits row with that restaurant_id remains.
C22_StorageCascade ==
    [][ (Called("restaurant_repo.delete") /\ last'.exc = "None")
        => ~HasVisit(visits', last'.restaurant_id) ]_vars

\* The days of the calendar in the years the typed texts name.
CalendarDays ==
    { d \in (2023..2025) \X (1..12) \X (1..31) : d[3] <= DaysInMonth(d[1], d[2]) }

\* The ways to write the day d that datetime.strptime reads back as d in
\* one of the three formats: day and month zero-filled or not, a one-digit
\* day also with a blank in place of the zero.
Writings(d) ==
    { Written(d, formats[i], pm, pd) : i \in 1..3, pm \in BOOLEAN, pd \in BOOLEAN }
    \cup ( IF d[3] >= 10 THEN {}
           ELSE { IF formats[i].year_first
                  THEN FourDigits(d[1]) \o <<formats[i].sep>>
                       \o TwoDigits(d[2], pm) \o <<formats[i].sep, Space>>
                       \o TwoDigits(d[3], FALSE)
                  ELSE <<Space>> \o TwoDigits(d[3], FALSE) \o <<formats[i].sep>>
                       \o TwoDigits(d[2], pm) \o <<formats[i].sep>>
                       \o FourDigits(d[1]) : i \in 1..3, pm \in BOOLEAN } )

\* C23: validate_date(text) returns the calendar day when the trimmed text is
\* that day written as YYYY-MM-DD, DD/MM/YYYY or DD-MM-YYYY and the day is not
\* after the current one; it fails with ValidationError, saying the date is in
\* the future, when the day is after the current one, and with
\* ValidationError, saying the format is invalid, when the text is no day
\* written in any of the three formats.
C23_ValidateDate ==
    last.op = "validate_date" =>
      LET days == {d \in CalendarDays : strip(last.text) \in Writings(d)}
      IN  /\ \A d \in days :
               IF DateGT(d, Today)
               THEN /\ last.exc = "ValidationError"
                    /\ last.message = "Visit date cannot be in the future"
               ELSE /\ last.exc = "None"
                    /\ last.entity = Some(d)
          /\ days = {} =>
               /\ last.exc = "ValidationError"
               /\ last.message = "Invalid date format"

\* C23 witness: a day after the current one, written in the third format with
\* blanks around it, was refused as being in the future.
C23_Witness ==
    /\ last.op = "validate_date"
    /\ last.text = <<" ">> \o Written(<<2024, 6, 16>>, formats[3], TRUE, TRUE)
                          \o <<" ">>
    /\ last.exc = "ValidationError"
    /\ last.message = "Visit date cannot be in the future"

\* An optional string that is unset or of at most max characters
AtMost(o, max) == o = None \/ Len(o[1]) <= max

\* The documented rules of a stored restaurant.
RestaurantOk(r) ==
    /\ r.name # <<>> /\ Trimmed(r.name) /\ Len(r.name) <= 100
    /\ r.location # <<>> /\ Trimmed(r.location) /\ Len(r.location) <= 150
    /\ r.country # <<>> /\ Trimmed(r.country) /\ Len(r.country) <= 100
    /\ r.price_range \in {1, 2, 3, 4}
    /\ AtMost(r.cuisine_type, 50)
    /\ AtMost(r.phone, 20)
    /\ AtMost(r.website, 200)
    /\ AtMost(r.social_media, 200)

\* The field values f, once trimmed, break no documented rule.
FieldsOk(f) == RestaurantOk(Stored(NoId, f))

FirstViolationDocumented(f) ==
    IF Blank(f.name) THEN "Restaurant name is required."
    ELSE IF Blank(f.location) THEN "Location is required."
    ELSE IF Blank(f.country) THEN "Country is required."
    ELSE IF Len(f.name) > 100 THEN "Restaurant name must not exceed 100 chars."
    ELSE IF Len(f.location) > 150 THEN "Location must not exceed 150 chars."
    ELSE IF Len(f.country) > 100 THEN "Country must not exceed 100 chars."
    ELSE IF f.price_range \notin {1, 2, 3, 4}
    THEN "Price range must be between 1 and 4."
    ELSE IF ~AtMost(f.cuisine_type, 50)
    THEN "Cuisine type must not exceed 50 chars."
    ELSE IF ~AtMost(f.phone, 20) THEN "Phone number must not exceed 20 chars."
    ELSE IF ~AtMost(f.website, 200) THEN "Website URL must not exceed 200 chars."
    ELSE IF ~AtMost(f.social_media, 200)
    THEN "Social media URL must not exceed 50 chars."
    ELSE ""

\* C27: when several rules are broken at once, Restaurant construction reports
\* the first one in the order presence of the required fields, length of the
\* required fields, range of price_range, lengths of the optional fields.
C27_FirstViolationOrder ==
    last.op = "Restaurant" =>
      last.message = FirstViolationDocumented(last.restaurant_fields[1])

\* The operations of the two services.
ServiceOperations ==
    {"create_restaurant", "update_restaurant", "delete_restaurant",
     "search_restaurants", "create_visit", "update_visit", "delete_visit",
     "delete_visit_for_restaurant", "get_visit_for_restaurant",
     "get_top_rated_visits", "get_visit_by_meal_type"}

\* C29: a service operation that ends by raising, whatever the exception,
\* leaves the stored restaurants and visits exactly as they were before the
\* call.
C29_RaisingCallStoresNothing ==
    [][ (last'.op \in ServiceOperations /\ last'.exc # "None")
        => (restaurants' = restaurants /\ visits' = visits) ]_vars

\* C29 witness: create_visit for a stored restaurant without a visit, with
\* valid field values, ended by raising.
C29_Witness ==
    /\ last.op = "create_visit"
    /\ last.restaurant_id \in DOMAIN restaurants
    /\ ~HasVisit(visits, last.restaurant_id)
    /\ last.visit_fields[1] \in ValidVisitInputs
    /\ last.exc # "None"

\* The database file after the step.
db_after == [restaurants |-> restaurants', visits |-> visits',
             restaurant_seq |-> restaurant_seq', visit_seq |-> visit_seq']

\* C30: update_visit that moves a visit from restaurant A to a stored
\* restaurant B without a visit, with valid field values, succeeds; afterwards
\* A has no visit and B has exactly that visit under the same visit id, so
\* delete_restaurant(A) is not refused with BusinessRuleViolationError and
\* delete_restaurant(B) is.
C30_UpdateVisitMovesVisit ==
    [][ ( /\ Called("update_visit")
          /\ last'.visit_id \in DOMAIN visits
          /\ last'.restaurant_id \in DOMAIN restaurants
          /\ last'.restaurant_id # visits[last'.visit_id].restaurant_id
          /\ ~HasVisit(visits, last'.restaurant_id)
          /\ last'.visit_fields[1] \in ValidVisitInputs )
        => LET A == visits[last'.visit_id].restaurant_id
               B == last'.restaurant_id
           IN  /\ last'.exc = "None"
               /\ ~HasVisit(visits', A)
               /\ {i \in DOMAIN visits' : visits'[i].restaurant_id = B}
                    = {last'.visit_id}
               /\ delete_restaurant(db_after, A).exc
                    # "BusinessRuleViolationError"
               /\ delete_restaurant(db_after, B).exc
                    = "BusinessRuleViolationError" ]_vars

\* C26: when the restaurants row is removed by another actor between the
\* existence check of update_restaurant and its persist step, the call fails
\* with NotFoundError and the store has no row under the id afterwards.
C26_UpdateAfterConcurrentDelete ==
    [][ ( /\ pc = "update_restaurant"
          /\ pc' = "menu"
          /\ inflight[1].restaurant_id \notin DOMAIN restaurants )
        => ( /\ last'.op = "update_restaurant"
             /\ last'.restaurant_id = inflight[1].restaurant_id
             /\ last'.exc = "NotFoundError"
             /\ last'.restaurant_id \notin DOMAIN restaurants' ) ]_vars

\* C26 witness: an update_restaurant call that had passed its existence check
\* and constructed the updated restaurant ended with NotFoundError.
C26_Witness ==
    /\ last.op = "update_restaurant"
    /\ last.entity # None
    /\ last.exc = "NotFoundError"
    /\ last.restaurant_id \in issued.restaurants
    /\ last.restaurant_id \notin DOMAIN restaurants

\* The handlers of the CLI that call a service
CliHandlers ==
    {"cli.add_restaurant", "cli.view_all_restaurants", "cli.search_restaurants",
     "cli.filter_by_country", "cli.delete_restaurant", "cli.add_visit",
     "cli.view_all_visits", "cli.filter_visits_by_rating",
     "cli.filter_visits_by_meal_type", "cli.delete_visit"}

\* C25: the menu loop survives every failing operation: whichever exception
\* is raised inside a CLI handler, the handler reports an error message and
\* returns, and the loop is at the menu again and still running; the loop ends
\* only in the turn in which choice '0' was typed.
C25_MenuLoopSurvives ==
    [][ (pc = "menu" /\ running)
        => /\ (last'.op \in CliHandlers /\ last'.exc # "None")
                => (last'.message = "error" /\ pc' = "menu" /\ running')
           /\ (pc' # "menu" \/ ~running') => last'.text = <<"0">> ]_vars

\* C25 witness: add_visit ran into an exception of a service call, and the
\* program is at the menu, running.
C25_Witness ==
    /\ last.op = "cli.add_visit"
    /\ last.exc # "None"
    /\ last.message = "error"
    /\ pc = "menu"
    /\ running

====
